---------------------------- MODULE Spec2Model ----------------------------
(***************************************************************************)
(* A model of Retina's Layer2D / Layer3D (src/retina/core/layer.py) and of *)
(* the EventSystem of the swiss-roll demo (src/demos/nldr/swiss_roll.py).  *)
(*                                                                         *)
(* Python values are records [k, v]: k is the kind of the value and v an   *)
(* integer (a truth value, a string index, the identity of a list object   *)
(* or of an artist).  List objects live in `heap', so that two references  *)
(* to one list (self.lines and default_attrs['lines']) see one content.    *)
(* Linewidths are floats that the code only doubles and halves; they are   *)
(* dyadic rationals [n, e] standing for n / 2^e, which makes both exact.   *)
(***************************************************************************)
EXTENDS Integers, Sequences, FiniteSets, TLC

VARIABLES cls, attrs, heap, artists, exc, hist,
          hover_sec, click_sec, alpha, npatches, showcased, raised, lastEv

layerVars == <<cls, attrs, heap, artists, exc, hist>>
eventVars == <<hover_sec, click_sec, alpha, npatches, showcased, raised, lastEv>>
vars == <<cls, attrs, heap, artists, exc, hist,
          hover_sec, click_sec, alpha, npatches, showcased, raised, lastEv>>

(* ------------------------------ bounds -------------------------------- *)

\* artists (lines, collections, patches) created in one behaviour
MaxArtists == 2
\* data arrays appended to x_data in one behaviour
MaxData == 1
\* bold() is called only while every linewidth is at most this
MaxWidth == 2
\* bounding patches appended to one section layer by hovering
MaxPatches == 1

(* --------------------------- Python values ---------------------------- *)

None == [k |-> "None", v |-> 0]
Bool(b) == [k |-> "bool", v |-> IF b THEN 1 ELSE 0]
Str(i) == [k |-> "str", v |-> i]
Num == [k |-> "num", v |-> 0]
Array == [k |-> "array", v |-> 0]
Dict == [k |-> "dict", v |-> 0]
List(i) == [k |-> "list", v |-> i]
Artist(i) == [k |-> "artist", v |-> i]

\* bool(val) for the values a layer's `visible' holds
Truthy(val) == val.k \notin {"None"} /\ ~(val.k \in {"bool", "num"} /\ val.v = 0)

(* ----------------------------- linewidths ----------------------------- *)

RECURSIVE Pow2(_)
Pow2(e) == IF e = 0 THEN 1 ELSE 2 * Pow2(e - 1)

Lw(n, e) == [n |-> n, e |-> e]

RECURSIVE Norm(_)
Norm(x) ==
    IF x.n = 0 THEN Lw(0, 0)
    ELSE IF x.e > 0 /\ x.n % 2 = 0 THEN Norm(Lw(x.n \div 2, x.e - 1))
    ELSE x

Less(x, y) == x.n * Pow2(y.e) < y.n * Pow2(x.e)
Twice(x) == Norm(Lw(2 * x.n, x.e))
HalfOf(x) == Norm(Lw(x.n, x.e + 1))
\* Python's max(a, b): b only when it is strictly greater
PyMax(a, b) == IF Less(a, b) THEN b ELSE a

\* the linewidths a Line2D is created with (linewidth=... in add_line's kwargs)
LineWidths == {Lw(0, 0), Lw(1, 1), Lw(1, 0), Lw(3, 1)}
\* the `linewidth' argument of bold(): None, 0 or a width
NoLinewidth == [given |-> FALSE, w |-> Lw(0, 0)]
BoldArgs == {NoLinewidth} \cup {[given |-> TRUE, w |-> w] : w \in {Lw(0, 0), Lw(5, 0)}}

(* ------------------------- the layer's objects ------------------------ *)

default_style == 0
layer_name == 1

ListNames2D == <<"lines", "hlines", "vlines", "x_data", "y_data", "plots", "patches">>
ListNames3D == <<"lines", "hlines", "vlines", "x_data", "y_data", "z_data",
                 "plots", "planes", "patches">>
ListNames(c) == IF c = "Layer3D" THEN ListNames3D ELSE ListNames2D

Range(s) == {s[i] : i \in DOMAIN s}
\* the identity of the list object that default_attrs holds under `name'
ListId(name) == CHOOSE i \in DOMAIN ListNames3D : ListNames3D[i] = name
\* the two list objects of a nested value [[artist]] given to add_attrs
OuterId == Len(ListNames3D) + 1
InnerId == Len(ListNames3D) + 2
ListIds == 1 .. InnerId

\* self.default_attrs as __init__ builds it
default_attrs(c) ==
    [a \in {"visible", "style"} \cup Range(ListNames(c)) |->
        IF a = "visible" THEN Bool(TRUE)
        ELSE IF a = "style" THEN Str(default_style)
        ELSE List(ListId(a))]

\* the order in which default_attrs' keys are inserted
DefaultKeys(c) == <<"visible", "style">> \o ListNames(c)

\* the keys of self.__dict__ in insertion order; a custom attribute comes last
KeyOrder(c) == <<"default_attrs", "name", "axes">> \o DefaultKeys(c) \o <<"extra">>


(* ----------------------- the recursive traversal ----------------------- *)

\* _is_iterable with its test of str inverted: only a string counts
is_iterable_str_only(val) == val.k = "str"

\* _is_iterable: has __iter__ and is not a string
is_iterable(val) == val.k \in {"list", "dict", "array"}

\* what list(iterable) yields: a list's items, a dict's keys, an array's numbers
Items(val, h, c) ==
    IF val.k = "list" THEN h[val.v]
    ELSE IF val.k = "dict" THEN [i \in DOMAIN DefaultKeys(c) |-> Str(2)]
    ELSE <<Num>>

\* a call handed to _method_loop: the method and its arguments
SetVisible(b) == [name |-> "set_visible", b |-> b, linewidth |-> NoLinewidth, bold |-> TRUE]
SetLinewidth(linewidth, bold) ==
    [name |-> "_set_linewidth", b |-> TRUE, linewidth |-> linewidth, bold |-> bold]

\* _set_linewidth on one artist; an artist without a linewidth makes getp raise
set_linewidth(a, linewidth, bold) ==
    IF linewidth.given /\ linewidth.w.n # 0
    THEN a   \* setp(artist, 'linewidth') names no value: nothing is set
    ELSE IF a.kind = "axes" THEN a
    ELSE IF bold THEN [a EXCEPT !.lw = Twice(a.lw)]
    ELSE [a EXCEPT !.lw = PyMax(HalfOf(a.lw), Lw(1, 0))]

\* the effect of one call of the method on the artist it is called with
Invoke(m, a) ==
    IF m.name = "set_visible" THEN [a EXCEPT !.visible = m.b]
    ELSE set_linewidth(a, m.linewidth, m.bold)

\* _attr_try_method: only a value that has the method is called
attr_try_method(val, m, arts) ==
    IF val.k = "artist" THEN [arts EXCEPT ![val.v] = Invoke(m, @)] ELSE arts

\* _try_method: the call is tried on every value, and what it raises is dropped
try_method(val, m, arts) ==
    IF val.k = "artist" THEN [arts EXCEPT ![val.v] = Invoke(m, @)] ELSE arts

\* _method_loop: the artists after the loop over `iterable' (a sequence of values)
RECURSIVE method_loop(_, _, _, _, _, _)
method_loop(attr, m, iterable, arts, h, c) ==
    IF iterable = <<>> THEN arts
    ELSE LET val == Head(iterable)
             done == IF is_iterable(val)
                     THEN method_loop(attr, m, Items(val, h, c), arts, h, c)
                     ELSE IF attr THEN attr_try_method(val, m, arts)
                     ELSE try_method(val, m, arts)
         IN  method_loop(attr, m, Tail(iterable), done, h, c)

\* self.__dict__.values()
RECURSIVE ValuesOf(_, _)
ValuesOf(keys, d) ==
    IF keys = <<>> THEN <<>>
    ELSE (IF Head(keys) \in DOMAIN d THEN <<d[Head(keys)]>> ELSE <<>>)
         \o ValuesOf(Tail(keys), d)
dict_values == ValuesOf(KeyOrder(cls), attrs)

\* the artists stored in the values of `iterable', at any depth of nested lists
RECURSIVE ArtistsIn(_, _)
ArtistsIn(iterable, h) ==
    IF iterable = <<>> THEN {}
    ELSE LET val == Head(iterable)
         IN  (IF val.k = "artist" THEN {val.v}
              ELSE IF val.k = "list" THEN ArtistsIn(h[val.v], h)
              ELSE {})
             \cup ArtistsIn(Tail(iterable), h)
LayerArtists == ArtistsIn(dict_values, heap)

(* ------------------------------ the layer ------------------------------ *)

NewId == Cardinality(DOMAIN artists)
NewArtist(kind, w, vis) == NewId :> [kind |-> kind, visible |-> vis, lw |-> w]

\* The operation just made, with the flag and the artists it started from.  The
\* operation before it is remembered only as the first of a pair that may undo
\* itself: toggle_display twice, or bold() and then unbold().
Entry(op, arg, e) ==
    [op |-> op, arg |-> arg, exc |-> e, visible0 |-> attrs["visible"], artists0 |-> artists]
IsPair(op, arg) ==
    /\ hist # <<>>
    /\ \/ op = "toggle_display" /\ hist[1].op = "toggle_display"
       \/ op = "unbold" /\ hist[1].op = "bold" /\ ~hist[1].arg.given
Push(op, arg, e) ==
    /\ exc' = e
    /\ hist' = <<Entry(op, arg, e)>> \o (IF IsPair(op, arg) THEN <<hist[1]>> ELSE <<>>)

\* __init__ without keyword arguments
LayerInit ==
    /\ cls \in {"Layer2D", "Layer3D"}
    /\ attrs = [a \in {"default_attrs", "name", "axes"} \cup DOMAIN default_attrs(cls) |->
                   IF a = "default_attrs" THEN Dict
                   ELSE IF a = "name" THEN Str(layer_name)
                   ELSE IF a = "axes" THEN Artist(0)
                   ELSE default_attrs(cls)[a]]
    /\ heap = [i \in ListIds |-> <<>>]
    /\ artists = (0 :> [kind |-> "axes", visible |-> TRUE, lw |-> Lw(0, 0)])
    /\ exc = "none"
    /\ hist = <<>>

set_visibility(boolean) ==
    method_loop(TRUE, SetVisible(boolean), dict_values, artists, heap, cls)

show ==
    /\ artists' = set_visibility(TRUE)
    /\ attrs' = [attrs EXCEPT !["visible"] = Bool(TRUE)]
    /\ Push("show", NoLinewidth, "none")
    /\ UNCHANGED <<cls, heap, eventVars>>

hide ==
    /\ artists' = set_visibility(FALSE)
    /\ attrs' = [attrs EXCEPT !["visible"] = Bool(FALSE)]
    /\ Push("hide", NoLinewidth, "none")
    /\ UNCHANGED <<cls, heap, eventVars>>

\* toggle_display: hide() when self.visible is true, show() otherwise
toggle_display ==
    /\ IF Truthy(attrs["visible"])
       THEN /\ artists' = set_visibility(FALSE)
            /\ attrs' = [attrs EXCEPT !["visible"] = Bool(FALSE)]
       ELSE /\ artists' = set_visibility(TRUE)
            /\ attrs' = [attrs EXCEPT !["visible"] = Bool(TRUE)]
    /\ Push("toggle_display", NoLinewidth, "none")
    /\ UNCHANGED <<cls, heap, eventVars>>

\* add_line(..., linewidth=w, visible=vis): self.lines.append(Line2D(...))
add_line(W, V) ==
    /\ NewId <= MaxArtists
    /\ \E w \in W, vis \in V :
         IF attrs["lines"].k = "list"
         THEN /\ artists' = artists @@ NewArtist("line", w, vis)
              /\ heap' = [heap EXCEPT ![attrs["lines"].v] = Append(@, Artist(NewId))]
              /\ Push("add_line", NoLinewidth, "none")
         ELSE /\ Push("add_line", NoLinewidth, "AttributeError")
              /\ UNCHANGED <<artists, heap>>
    /\ UNCHANGED <<cls, attrs, eventVars>>

\* bold(linewidth), called while every linewidth is at most MaxWidth
bold ==
    /\ \A i \in DOMAIN artists : ~Less(Lw(MaxWidth, 0), artists[i].lw)
    /\ \E linewidth \in BoldArgs :
         /\ artists' = method_loop(FALSE, SetLinewidth(linewidth, TRUE), dict_values,
                                   artists, heap, cls)
         /\ Push("bold", linewidth, "none")
    /\ UNCHANGED <<cls, attrs, heap, eventVars>>

unbold ==
    /\ artists' = method_loop(FALSE, SetLinewidth(NoLinewidth, FALSE), dict_values,
                              artists, heap, cls)
    /\ Push("unbold", NoLinewidth, "none")
    /\ UNCHANGED <<cls, attrs, heap, eventVars>>

\* add_data(*args) with nargs arguments; Layer3D also reads args[2]
add_data ==
    /\ Len(heap[ListId("x_data")]) < MaxData
    /\ \E nargs \in {2, 3} :
         IF attrs["x_data"].k # "list"
         THEN /\ Push("add_data", NoLinewidth, "AttributeError")
              /\ heap' = heap
         ELSE LET hx  == [heap EXCEPT ![attrs["x_data"].v] = Append(@, Array)]
                  hxy == [hx EXCEPT ![attrs["y_data"].v] = Append(@, Array)]
              IN  IF cls = "Layer2D"
                  THEN heap' = hxy /\ Push("add_data", NoLinewidth, "none")
                  ELSE IF nargs = 2
                  THEN heap' = hxy /\ Push("add_data", NoLinewidth, "IndexError")
                  ELSE /\ heap' = [hxy EXCEPT ![attrs["z_data"].v] = Append(@, Array)]
                       /\ Push("add_data", NoLinewidth, "none")
    /\ UNCHANGED <<cls, attrs, artists, eventVars>>

\* bound(shape, linewidth=w): a patch around the data, when there is data
bound(W) ==
    /\ NewId <= MaxArtists
    /\ \E shape \in {"Rectangle", "Circle", "Ellipse"}, w \in W :
         IF attrs["x_data"].k # "list" \/ heap[attrs["x_data"].v] = <<>>
         THEN \* the except branch: a message is printed and bound returns
              UNCHANGED <<artists, heap>>
         ELSE IF shape \in {"Rectangle", "Circle"}
         THEN /\ artists' = artists @@ NewArtist("patch", w, TRUE)
              /\ heap' = [heap EXCEPT ![attrs["patches"].v] = Append(@, Artist(NewId))]
         ELSE UNCHANGED <<artists, heap>>
    /\ Push("bound", NoLinewidth, "none")
    /\ UNCHANGED <<cls, attrs, eventVars>>

\* add_attrs(extra=value): a new Line2D, [[a new Line2D]], the first line of
\* the layer once more, or a number
add_attrs(W) ==
    /\ \E what \in {"artist", "nested", "alias", "number"}, w \in W :
         /\ what \in {"artist", "nested"} => NewId <= MaxArtists
         /\ what = "alias" => attrs["lines"].k = "list" /\ heap[attrs["lines"].v] # <<>>
         /\ artists' = IF what \in {"artist", "nested"}
                       THEN artists @@ NewArtist("line", w, TRUE) ELSE artists
         /\ heap' = IF what = "nested"
                    THEN [heap EXCEPT ![InnerId] = <<Artist(NewId)>>,
                                      ![OuterId] = <<List(InnerId)>>]
                    ELSE heap
         /\ attrs' = [k \in DOMAIN attrs \cup {"extra"} |->
                        IF k # "extra" THEN attrs[k]
                        ELSE IF what = "artist" THEN Artist(NewId)
                        ELSE IF what = "nested" THEN List(OuterId)
                        ELSE IF what = "alias" THEN heap[attrs["lines"].v][1]
                        ELSE Num]
    /\ Push("add_attrs", NoLinewidth, "none")
    /\ UNCHANGED <<cls, eventVars>>

\* dict.update(other); a None argument raises TypeError and updates nothing
dict_update(d, other) ==
    IF other.k = "dict"
    THEN [k \in DOMAIN d \cup DOMAIN default_attrs(cls) |->
            IF k \in DOMAIN default_attrs(cls) THEN default_attrs(cls)[k] ELSE d[k]]
    ELSE d

clear ==
    LET nones == [key \in DOMAIN attrs |-> None]
        \* self.default_attrs, read after the loop has run
        other == nones["default_attrs"]
    IN  /\ attrs' = dict_update(nones, other)
        /\ Push("clear", NoLinewidth, IF other.k = "dict" THEN "none" ELSE "TypeError")
        /\ UNCHANGED <<cls, heap, artists, eventVars>>

\* the linewidth a Line2D or a patch gets when none is asked for
DefaultWidth == {Lw(1, 0)}

\* a client that builds a layer, shows and hides it, and clears it
LayerNext ==
    \/ add_data
    \/ add_line(DefaultWidth, BOOLEAN)
    \/ add_attrs(DefaultWidth)
    \/ bound(DefaultWidth)
    \/ show
    \/ hide
    \/ toggle_display
    \/ clear

\* a client that adds lines of several widths and boldfaces them
BoldNext ==
    \/ add_line(LineWidths, {TRUE})
    \/ add_attrs(LineWidths)
    \/ bold
    \/ unbold

(* ---------------------- the demo's EventSystem ------------------------ *)

num_sections == 5

Layer(j) == [k |-> "layer", v |-> j]
Axes(i) == [k |-> "axes", v |-> i]
Sections == 0 .. (num_sections - 1)

\* fig.get_axes(): nld, then the subplot of each section
fig_axes == [i \in 1 .. (num_sections + 1) |-> Axes(i - 1)]

\* ax.title._text: 'Original data' for nld, 'section j' for the j-th subplot
title_text(ax) ==
    IF ax.v = 0 THEN [text |-> "Original data", j |-> 0]
    ELSE [text |-> "section", j |-> ax.v - 1]

\* nld.get_layer(name): the layer of that name; raises when there is none
get_layer(name) ==
    IF name.text = "section" /\ name.j \in Sections
    THEN [ok |-> TRUE, layer |-> Layer(name.j)]
    ELSE [ok |-> FALSE, layer |-> None]

\* nld.get_layer(ax.title._text) inside try; event.inaxes is None off the axes
lookup(inaxes) ==
    IF inaxes.k = "None" THEN [ok |-> FALSE, layer |-> None]
    ELSE get_layer(title_text(inaxes))

\* the methods Layer2D and Layer3D define
layer_methods ==
    {"set_default_style", "_try_method", "_attr_try_method", "_is_iterable",
     "_method_loop", "_set_visibility", "show", "hide", "toggle_display",
     "add_line", "add_vline", "add_hline", "set_style", "set_prop",
     "_set_linewidth", "bold", "unbold", "add_data", "bound", "add_attrs",
     "clear", "add_plane"}

Call(f, on, arg) == [f |-> f, on |-> on, arg |-> arg]

\* layer.set_prop('alpha', a): every artist of the layer is given the alpha
set_prop(al, sec, a) == [al EXCEPT ![sec.v] = a]

\* the loop over fig.get_axes(): every other layer a title names gets alpha 0.2
RECURSIVE dim_others(_, _, _)
dim_others(axs, sec, st) ==
    IF axs = <<>> THEN st
    ELSE LET r == lookup(Head(axs))
         IN  dim_others(Tail(axs), sec,
                 IF r.ok /\ r.layer # sec
                 THEN [alpha |-> set_prop(st.alpha, r.layer, "0.2"),
                       calls |-> Append(st.calls, Call("set_prop", r.layer, "0.2"))]
                 ELSE st)

Events == {None} \cup Range(fig_axes)

\* the event just handled: the calls its handler made on the layers and on nld,
\* and the sections the EventSystem held when it came
Event(kind, inaxes, calls) ==
    [kind |-> kind, inaxes |-> inaxes, calls |-> calls,
     hover0 |-> hover_sec, click0 |-> click_sec]

EventInit ==
    /\ hover_sec = None
    /\ click_sec = None
    /\ alpha = [j \in Sections |-> "unset"]
    /\ npatches = [j \in Sections |-> 0]
    /\ showcased = None
    /\ raised = "none"
    /\ lastEv = [kind |-> "none", inaxes |-> None, calls |-> <<>>,
                 hover0 |-> None, click0 |-> None]

mouse_over ==
    \E inaxes \in Events :
      LET r == lookup(inaxes)
          sec == r.layer
      IN  /\ r.ok => npatches[sec.v] < MaxPatches
          /\ IF ~r.ok
             THEN /\ raised' = "none"
                  /\ lastEv' = Event("motion", inaxes, <<>>)
                  /\ UNCHANGED <<hover_sec, alpha, npatches>>
             ELSE IF sec # hover_sec /\ hover_sec # None /\ "unbound" \notin layer_methods
             THEN \* self.hover_sec.unbound(): no such attribute
                  /\ raised' = "AttributeError"
                  /\ lastEv' = Event("motion", inaxes, <<>>)
                  /\ UNCHANGED <<hover_sec, alpha, npatches>>
             ELSE LET pre == IF sec # hover_sec /\ hover_sec # None
                             THEN <<Call("unbound", hover_sec, "")>> ELSE <<>>
                      st  == dim_others(fig_axes, sec,
                                 [alpha |-> set_prop(alpha, sec, "1"),
                                  calls |-> pre \o <<Call("set_prop", sec, "1"),
                                                     Call("bound", sec, "")>>])
                  IN  /\ alpha' = st.alpha
                      /\ npatches' = [npatches EXCEPT ![sec.v] = @ + 1]
                      /\ hover_sec' = sec
                      /\ raised' = "none"
                      /\ lastEv' = Event("motion", inaxes, st.calls)
          /\ UNCHANGED <<click_sec, showcased, layerVars>>

mouse_click ==
    \E inaxes \in Events :
      LET r == lookup(inaxes)
          sec == r.layer
      IN  /\ IF ~r.ok
             THEN /\ lastEv' = Event("click", inaxes, <<>>)
                  /\ UNCHANGED <<click_sec, showcased>>
             ELSE /\ IF sec # click_sec /\ click_sec # None
                     THEN /\ showcased' = sec
                          /\ lastEv' = Event("click", inaxes, <<Call("showcase", sec, "")>>)
                     ELSE /\ showcased' = showcased
                          /\ lastEv' = Event("click", inaxes, <<>>)
                  /\ click_sec' = sec
          /\ raised' = "none"
          /\ UNCHANGED <<hover_sec, alpha, npatches, layerVars>>

EventNext ==
    \/ mouse_over
    \/ mouse_click

(* --------------------------- specifications --------------------------- *)

\* a layer is built and has none of the demo's events
Init ==
    /\ LayerInit
    /\ EventInit

\* a layer that is built, shown, hidden and cleared
Spec == Init /\ [][LayerNext]_vars

\* a layer whose lines are boldfaced
SpecBold == Init /\ [][BoldNext]_vars

\* the demo's figure: its section layers are Layer3D objects of nld
InitEvents ==
    /\ Init
    /\ cls = "Layer3D"

\* the demo's event handlers
SpecEvents == InitEvents /\ [][EventNext]_vars

(* ------------------------------- claims -------------------------------- *)

Last == hist[1]
Did(op) == hist # <<>> /\ Last.op = op
\* the artists of the layer that have a linewidth (the axes has none)
LayerLines == {a \in LayerArtists : artists[a].kind # "axes"}
AllVisible(b) == \A a \in LayerArtists : artists[a].visible = b

\* C1: clear() returns normally and leaves every attribute named in
\* default_attrs at its default (visible True, the default style, the lists
\* empty) and every other attribute None.
C1_ClearRestoresDefaults ==
    Did("clear") =>
        /\ exc = "none"
        /\ \A key \in DOMAIN attrs :
             IF key \in DOMAIN default_attrs(cls)
             THEN /\ attrs[key] = default_attrs(cls)[key]
                  /\ attrs[key].k = "list" => heap[attrs[key].v] = <<>>
             ELSE attrs[key] = None

\* C2, first part: after show() the flag is True and every artist of the layer,
\* at any depth of nested lists, is visible; after hide() the flag is False and
\* every artist is invisible; toggle_display() does hide() when the flag was
\* true and show() when it was not.
ShowHideToggle ==
    /\ Did("show") => attrs["visible"] = Bool(TRUE) /\ AllVisible(TRUE)
    /\ Did("hide") => attrs["visible"] = Bool(FALSE) /\ AllVisible(FALSE)
    /\ Did("toggle_display") =>
         /\ attrs["visible"] = Bool(~Truthy(Last.visible0))
         /\ AllVisible(~Truthy(Last.visible0))

\* the flag equals the visibility of every artist of the layer
FlagIsVisibility(flag, arts) ==
    /\ flag.k = "bool"
    /\ \A a \in LayerArtists : arts[a].visible = (flag.v = 1)

TwoToggles == Len(hist) = 2 /\ Last.op = "toggle_display"
RestoredByToggles ==
    /\ attrs["visible"] = hist[2].visible0
    /\ \A a \in LayerArtists : artists[a].visible = hist[2].artists0[a].visible

\* C2 as amended: the first part; after show, hide or toggle_display the flag
\* equals the visibility of every artist; and two consecutive toggle_display()
\* calls restore the flag and the visibilities when the flag was True or False
\* and equalled every artist's visibility before the first of them.
C2_VisibleFlag ==
    /\ ShowHideToggle
    /\ (Did("show") \/ Did("hide") \/ Did("toggle_display"))
         => FlagIsVisibility(attrs["visible"], artists)
    /\ (TwoToggles /\ FlagIsVisibility(hist[2].visible0, hist[2].artists0))
         => RestoredByToggles

\* C2, witness: two consecutive toggles of a layer whose flag equalled the
\* visibility of its artists, one of them inside a nested list
C2_Witness ==
    /\ TwoToggles
    /\ FlagIsVisibility(hist[2].visible0, hist[2].artists0)
    /\ "extra" \in DOMAIN attrs
    /\ attrs["extra"].k = "list"
    /\ Cardinality(LayerArtists) >= 3

\* C2 as stated: two consecutive toggle_display() calls restore the flag and
\* the visibilities to what they were, whatever they were.
C2_TogglesRestore ==
    /\ ShowHideToggle
    /\ TwoToggles => RestoredByToggles

\* C3: bold() and then unbold() leave every artist's linewidth what it was.
C3_UnboldRevertsBold ==
    (Len(hist) = 2 /\ Last.op = "unbold") =>
        \A a \in LayerLines : artists[a].lw = hist[2].artists0[a].lw

\* C4: bold(linewidth=w) with a non-zero w sets every artist's linewidth to w;
\* bold() without a linewidth doubles every artist's linewidth.
C4_BoldSetsLinewidth ==
    Did("bold") =>
        \A a \in LayerLines :
            IF Last.arg.given /\ Last.arg.w.n # 0
            THEN artists[a].lw = Last.arg.w
            ELSE Last.arg.given \/ artists[a].lw = Twice(Last.artists0[a].lw)

\* C5: every click on a subplot whose title names a section layer showcases
\* that section; a click elsewhere showcases nothing and leaves click_sec.
C5_ClickShowcases ==
    lastEv.kind = "click" =>
        LET r == lookup(lastEv.inaxes)
        IN  IF r.ok
            THEN lastEv.calls = <<Call("showcase", r.layer, "")>> /\ showcased = r.layer
            ELSE lastEv.calls = <<>> /\ click_sec = lastEv.click0

\* the position of the first call of f on layer `on' among the handler's calls
CallAt(f, on) ==
    IF \E i \in DOMAIN lastEv.calls : lastEv.calls[i].f = f /\ lastEv.calls[i].on = on
    THEN CHOOSE i \in DOMAIN lastEv.calls :
             /\ lastEv.calls[i].f = f /\ lastEv.calls[i].on = on
             /\ \A j \in 1 .. (i - 1) : ~(lastEv.calls[j].f = f /\ lastEv.calls[j].on = on)
    ELSE 0

\* C6: once a motion event over a subplot naming section layer S is handled,
\* hover_sec is S, S has alpha 1, every other section layer has alpha 0.2, and
\* the bound of a different layer hovered before was removed before S was
\* bounded; a motion event over an axes naming no layer changes nothing.
C6_HoverHighlights ==
    lastEv.kind = "motion" =>
        LET r == lookup(lastEv.inaxes)
        IN  IF r.ok
            THEN /\ hover_sec = r.layer
                 /\ alpha[r.layer.v] = "1"
                 /\ \A j \in Sections \ {r.layer.v} : alpha[j] = "0.2"
                 /\ lastEv.hover0 \notin {None, r.layer} =>
                      /\ CallAt("unbound", lastEv.hover0) > 0
                      /\ CallAt("unbound", lastEv.hover0) < CallAt("bound", r.layer)
            ELSE hover_sec = lastEv.hover0 /\ lastEv.calls = <<>>

=============================================================================
